---- MODULE Spec2Model ----
(***************************************************************************)
(* Two-stage claim extraction / verification pipeline of                   *)
(* backend/app/vertex.py (extract_and_verify_claims and its helpers).      *)
(*                                                                         *)
(* A text is a sequence of tokens.  Text that the program inspects         *)
(* character by character (model answers, document fragments) is written   *)
(* one character per token; the fixed template literals the program only   *)
(* concatenates ("### Claim ", "Status: yellow", ...) are one token each.  *)
(* Whitespace is always written one character per token, so strip() and    *)
(* splitlines() are computed on the tokens as Python computes them on      *)
(* characters.                                                             *)
(*                                                                         *)
(* Spec and FairSpec are runs of the pipeline against a service that may   *)
(* answer anything; DeterministicSpec fixes the service before the run.    *)
(* ParserSpec, RequestSpec and ChunkerSpec run _parse_claim_extraction_text,*)
(* _run_vertex_request and pdf_utils.chunk_text on their own inputs.        *)
(***************************************************************************)
EXTENDS Integers, Sequences, FiniteSets, TLC

(***************************************************************************)
(* Bounds of the model and constants of the program.                       *)
(***************************************************************************)
\* largest number of bullet lines in a modelled extraction answer
MaxClaims == 6
\* the completion order of the verification tasks is recorded for runs of
\* at most this many tasks
MaxOrdered == 3
\* a response text handed to the parser on its own has at most this many lines
MaxLines == 3
\* a reply handed to the gateway on its own has at most this many candidates
MaxCandidates == 3
\* a text handed to chunk_text has at most this many characters
MaxTextLen == 5
\* chunk_size and overlap range over -MaxChunkSize..MaxChunkSize
MaxChunkSize == 3
\* _VERIFICATION_CONCURRENCY
VERIFICATION_CONCURRENCY == 5
\* stop_after_attempt(3) of the decorator of extract_and_verify_claims
MaxAttempts == 3
\* the only HTTP status _post_to_vertex accepts
StatusOk == 200

(***************************************************************************)
(* Python string helpers.                                                  *)
(***************************************************************************)
SetMin(S) == CHOOSE x \in S : \A y \in S : x <= y
SetMax(S) == CHOOSE x \in S : \A y \in S : x >= y

IsSpace(c) == c \in {" ", "\n"}

\* str.strip() of a text
StripText(s) ==
    LET keep == {i \in 1..Len(s) : ~IsSpace(s[i])}
    IN  IF keep = {} THEN <<>> ELSE SubSeq(s, SetMin(keep), SetMax(keep))

\* str.strip(); the argument is evaluated once
Strip(s) == CHOOSE stripped \in {StripText(text) : text \in {s}} : TRUE

\* variant: letters are compared as written
LowerChar_AsWritten(c) == c

\* str.lower() on one character
LowerChar(c) ==
    CASE c = "T" -> "t" [] c = "I" -> "i" [] c = "L" -> "l" [] c = "E" -> "e"
      [] c = "C" -> "c" [] c = "A" -> "a" [] c = "M" -> "m" [] c = "S" -> "s"
      [] c = "N" -> "n" [] c = "O" -> "o" [] c = "R" -> "r"
      [] OTHER -> c

\* str.lower()
Lower(s) == [i \in 1..Len(s) |-> LowerChar(s[i])]

\* a slice bound of Python brought into 0..n: negative bounds count from the end
SliceBound(i, n) ==
    IF i < 0 THEN (IF i + n < 0 THEN 0 ELSE i + n)
    ELSE (IF i > n THEN n ELSE i)

\* s[lo:hi]
Slice(s, lo, hi) ==
    IF SliceBound(lo, Len(s)) >= SliceBound(hi, Len(s)) THEN <<>>
    ELSE SubSeq(s, SliceBound(lo, Len(s)) + 1, SliceBound(hi, Len(s)))

\* variant: only an overlap larger than the chunk is rejected
ConfigurationError_Strict(size, lap) == size < lap

\* the test that guards chunk_text: chunk_size <= overlap
ConfigurationError(size, lap) == size <= lap

\* variant: the next chunk starts past the end of the previous one
NextStart_Forward(stop, lap) == stop + lap

\* start = end - overlap
NextStart(stop, lap) == stop - lap

\* str.startswith(prefix)
StartsWith(s, prefix) ==
    /\ Len(s) >= Len(prefix)
    /\ SubSeq(s, 1, Len(prefix)) = prefix

\* str.splitlines()
RECURSIVE SplitLines(_)
SplitLines(s) ==
    IF s = <<>> THEN <<>>
    ELSE LET nl == {i \in 1..Len(s) : s[i] = "\n"}
         IN  IF nl = {} THEN <<s>>
             ELSE LET k == SetMin(nl)
                  IN  <<SubSeq(s, 1, k - 1)>> \o SplitLines(SubSeq(s, k + 1, Len(s)))

\* sep.join(parts)
RECURSIVE Join(_, _)
Join(parts, sep) ==
    IF parts = <<>> THEN <<>>
    ELSE IF Len(parts) = 1 THEN parts[1]
    ELSE parts[1] \o sep \o Join(Tail(parts), sep)

DigitChar(d) == <<"0", "1", "2", "3", "4", "5", "6", "7", "8", "9">>[d + 1]

\* str(n) of a non-negative integer (the {index} of an f-string)
RECURSIVE IntToText(_)
IntToText(n) ==
    IF n < 10 THEN <<DigitChar(n)>>
    ELSE IntToText(n \div 10) \o <<DigitChar(n % 10)>>

NL == <<"\n">>
NLNL == <<"\n", "\n">>

(***************************************************************************)
(* Chunk assembler and prompt builders.                                    *)
(***************************************************************************)
\* [chunk.strip() for chunk in chunks if chunk.strip()]
RECURSIVE StrippedNonEmpty(_)
StrippedNonEmpty(chunks) ==
    IF chunks = <<>> THEN <<>>
    ELSE (IF Strip(Head(chunks)) # <<>> THEN <<Strip(Head(chunks))>> ELSE <<>>)
         \o StrippedNonEmpty(Tail(chunks))

\* _format_document_chunks
FormatDocumentChunks(chunks) ==
    Join(StrippedNonEmpty(chunks), <<"\n", "\n", "-", "-", "-", "\n", "\n">>)

\* _build_claim_extraction_prompt
BuildClaimExtractionPrompt(document_text) ==
    <<"You are an expert analyst summarizing checkable claims in a document. ...",
      "\n", "\n", "Document text:", "\n">> \o document_text

\* _build_claim_verification_prompt; an unset title (None) is the empty text
BuildClaimVerificationPrompt(claim_statement, document_text, document_title) ==
    LET title_block == IF document_title # <<>>
                       THEN <<"Document title: ">> \o document_title \o NL
                       ELSE <<>>
    IN  <<"You are a specialized fact-checking agent verifying a single claim. ...",
          "\n", "\n", "Claim to verify:", "\n">> \o claim_statement \o NLNL
        \o title_block
        \o <<"Document context:", "\n">> \o document_text

(***************************************************************************)
(* Inference gateway.  A reply of the remote service is                    *)
(*   [reached |-> did an HTTP response arrive, status |-> its status,      *)
(*    candidates |-> sequence of candidates], a candidate being the        *)
(* sequence of the texts of its parts.                                     *)
(***************************************************************************)
NoException == "none"

Ok(text) == [ok |-> TRUE, text |-> text, exc |-> NoException]
Raise(message) == [ok |-> FALSE, text |-> <<>>, exc |-> message]

\* the texts of the parts that are truthy, in order
RECURSIVE TruthyParts(_)
TruthyParts(parts) ==
    IF parts = <<>> THEN <<>>
    ELSE (IF Head(parts) # <<>> THEN <<Head(parts)>> ELSE <<>>) \o TruthyParts(Tail(parts))

\* variant: a candidate without text gives the empty text
ExtractTextFromCandidate_AllowEmpty(candidate) ==
    Ok(Strip(Join(TruthyParts(candidate), NL)))

\* _extract_text_from_candidate
ExtractTextFromCandidate(candidate) ==
    LET combined == Strip(Join(TruthyParts(candidate), NL))
    IN  IF combined # <<>> THEN Ok(combined)
        ELSE Raise("Unable to extract text response from Vertex AI.")

\* variant: the HTTP status of the reply is not looked at
RunVertexRequest_AnyStatus(reply) ==
    IF ~reply.reached THEN Raise("connection error")
    ELSE IF reply.candidates = <<>> THEN Raise("Vertex AI returned no candidates.")
    ELSE ExtractTextFromCandidate(reply.candidates[1])

\* _post_to_vertex followed by _run_vertex_request: the text or the exception
RunVertexRequest(reply) ==
    IF ~reply.reached THEN Raise("connection error")
    ELSE IF reply.status # StatusOk THEN Raise("Vertex AI request failed")
    ELSE IF reply.candidates = <<>> THEN Raise("Vertex AI returned no candidates.")
    ELSE ExtractTextFromCandidate(reply.candidates[1])

(***************************************************************************)
(* Response parser of the extraction stage.                                *)
(***************************************************************************)
TitleKeyword == <<"t", "i", "t", "l", "e", ":">>
ClaimsKeyword == <<"c", "l", "a", "i", "m", "s", ":">>
\* variant: only "none" stands for a missing title
TitleSentinels_OnlyNone == {<<>>, <<"n", "o", "n", "e">>}
\* the remainders of a title line that set no title: {"", "none", "n/a"}
TitleSentinels == {<<>>, <<"n", "o", "n", "e">>, <<"n", "/", "a">>}

\* line.split(":", 1)[1]
AfterFirstColon(line) ==
    LET colons == {i \in 1..Len(line) : line[i] = ":"}
    IN  SubSeq(line, SetMin(colons) + 1, Len(line))

\* the loop body of _parse_claim_extraction_text, folded over the lines
RECURSIVE ParseLines(_, _, _)
ParseLines(lines, document_title, claims) ==
    IF lines = <<>> THEN [document_title |-> document_title, claims |-> claims]
    ELSE
      LET line == Strip(Head(lines))
          lowered == Lower(line)
          rest == Tail(lines)
      IN  IF line = <<>> THEN ParseLines(rest, document_title, claims)
          ELSE IF StartsWith(lowered, TitleKeyword) THEN
                 LET possible_title == Strip(AfterFirstColon(line))
                 IN  IF possible_title # <<>> /\ Lower(possible_title) \notin TitleSentinels
                     THEN ParseLines(rest, possible_title, claims)
                     ELSE ParseLines(rest, document_title, claims)
          ELSE IF StartsWith(lowered, ClaimsKeyword) THEN
                 ParseLines(rest, document_title, claims)
          ELSE IF StartsWith(line, <<"-">>) THEN
                 LET claim_text == Strip(Tail(line))
                 IN  IF claim_text # <<>>
                     THEN ParseLines(rest, document_title, Append(claims, claim_text))
                     ELSE ParseLines(rest, document_title, claims)
          ELSE ParseLines(rest, document_title, claims)

\* variant: a response without claims is left without claims
ParseClaimExtractionText_NoFallback(response_text) ==
    ParseLines(SplitLines(response_text), <<>>, <<>>)

\* _parse_claim_extraction_text; an unset title (None) is the empty text
ParseClaimExtractionText(response_text) ==
    LET parsed == ParseLines(SplitLines(response_text), <<>>, <<>>)
    IN  IF parsed.claims = <<>> /\ Strip(response_text) # <<>>
        THEN [document_title |-> parsed.document_title,
              claims |-> <<Strip(response_text)>>]
        ELSE parsed

\* variant: a failed extraction request is swallowed and the document itself
\* is taken as the only claim
ExtractClaimStatements_Swallow(document_text, answer) ==
    IF answer.ok
    THEN [raised |-> FALSE, exc |-> NoException,
          document_title |-> ParseClaimExtractionText(answer.text).document_title,
          claims |-> ParseClaimExtractionText(answer.text).claims,
          response_text |-> answer.text]
    ELSE [raised |-> FALSE, exc |-> NoException,
          document_title |-> <<>>, claims |-> <<document_text>>,
          response_text |-> <<>>]

\* _extract_claim_statements once its gateway request has ended with `answer`
\* (the outcome of _run_vertex_request): the exception, or the parsed answer
ExtractClaimStatements(document_text, answer) ==
    IF answer.ok
    THEN [raised |-> FALSE, exc |-> NoException,
          document_title |-> ParseClaimExtractionText(answer.text).document_title,
          claims |-> ParseClaimExtractionText(answer.text).claims,
          response_text |-> answer.text]
    ELSE [raised |-> TRUE, exc |-> answer.exc,
          document_title |-> <<>>, claims |-> <<>>, response_text |-> <<>>]

(***************************************************************************)
(* Outcome of a coroutine: a returned value or a raised exception.         *)
(***************************************************************************)
NoResult == [document_title |-> <<>>, claims |-> <<>>, analysis_markdown |-> <<>>]

Returned(value) == [raised |-> FALSE, value |-> value, exc |-> NoException]
Raised(message) == [raised |-> TRUE, value |-> NoResult, exc |-> message]

(***************************************************************************)
(* Per-claim verification task (_verify_claim_with_logging).               *)
(***************************************************************************)
\* the block returned when the gateway answered: the try branch
VerifiedBlock(index, statement, verification_text) ==
    Strip(<<"### Claim ">> \o IntToText(index) \o NL
          \o <<"**Statement:** ">> \o statement \o NLNL
          \o Strip(verification_text))

\* the block returned when the gateway failed: the except branch
DegradedBlock(index, statement) ==
    <<"### Claim ">> \o IntToText(index) \o NL
    \o <<"**Statement:** ">> \o statement \o NLNL
    \o <<"Status: yellow", "\n",
         "Explanation: Verification failed due to an internal error.", "\n",
         "Citations: none">>

\* variant: a failed verification request is not caught inside the task
VerifyClaimWithLogging_Propagates(index, statement, answer) ==
    IF answer.ok
    THEN [raised |-> FALSE, block |-> VerifiedBlock(index, statement, answer.text),
          exc |-> NoException]
    ELSE [raised |-> TRUE, block |-> <<>>, exc |-> answer.exc]

\* the body of _verify_claim_with_logging once the gateway request has ended
\* with `answer` (the outcome of _run_vertex_request): always a returned block
VerifyClaimWithLogging(index, statement, answer) ==
    IF answer.ok
    THEN [raised |-> FALSE, block |-> VerifiedBlock(index, statement, answer.text),
          exc |-> NoException]
    ELSE [raised |-> FALSE, block |-> DegradedBlock(index, statement),
          exc |-> NoException]

(***************************************************************************)
(* Results of extract_and_verify_claims.                                   *)
(***************************************************************************)
UploadedDocument == <<"Uploaded Document">>

TitleOrDefault(document_title) ==
    IF document_title # <<>> THEN document_title ELSE UploadedDocument

\* the early return for an empty chunk list; analysis_markdown is None
EmptyDocumentResponse ==
    [document_title |-> <<"Empty document">>, claims |-> <<>>,
     analysis_markdown |-> <<>>]

\* the return of the `if not claim_statements` branch
NoClaimsResponse(document_title, extraction_markdown) ==
    [document_title |-> TitleOrDefault(document_title),
     claims |-> <<>>,
     analysis_markdown |->
        IF Strip(extraction_markdown) # <<>> THEN Strip(extraction_markdown)
        ELSE <<"No claims identified in the document.">>]

\* the return of the `if not analysis_blocks` branch
NoVerificationsResponse(document_title) ==
    [document_title |-> TitleOrDefault(document_title),
     claims |-> <<>>,
     analysis_markdown |->
        <<"No verifications were generated despite successful extraction.">>]

\* the final return of the try block
AssembledResponse(document_title, extraction_markdown, analysis_blocks) ==
    LET combined_analysis == Strip(Join(analysis_blocks, NLNL))
    IN  [document_title |-> TitleOrDefault(document_title),
         claims |-> <<>>,
         analysis_markdown |->
            <<"# Document Analysis", "\n", "\n", "**Title:** ">>
            \o TitleOrDefault(document_title) \o NLNL
            \o <<"## Claim Extraction", "\n">>
            \o Strip(extraction_markdown) \o NLNL
            \o <<"## Claim Verifications", "\n", "\n">>
            \o combined_analysis]

FallbackClaim ==
    [statement |-> "We could not verify claims for this document.",
     status |-> "yellow",
     explanation |-> "Vertex AI response could not be parsed.",
     citations |-> <<>>]

\* variant: the fallback result without its synthetic claim
FallbackResponse_NoClaim(message) ==
    [document_title |-> <<"Verification unavailable">>,
     claims |-> <<>>,
     analysis_markdown |->
        <<"# Document Analysis", "\n", "\n", "Analysis unavailable.", "\n", "\n",
          "Reason: ", message>>]

\* the return of the except clause
FallbackResponse(message) ==
    [document_title |-> <<"Verification unavailable">>,
     claims |-> <<FallbackClaim>>,
     analysis_markdown |->
        <<"# Document Analysis", "\n", "\n", "Analysis unavailable.", "\n", "\n",
          "Reason: ", message>>]

\* variant: the except clause lets the exception leave the body
ExceptClause_Reraise(message) == Raised(message)

\* `except Exception as exc:` of extract_and_verify_claims: what the body does
\* with an exception raised inside its try block
ExceptClause(message) == Returned(FallbackResponse(message))

\* variant: the blocks are collected as the tasks complete
GatherResults_CompletionOrder(tasks, finished) ==
    [k \in 1..Len(finished) |-> tasks[finished[k]].block]

\* asyncio.gather(*verification_tasks): the results in the order of the tasks
\* given to it, whatever the order `finished` in which they completed
GatherResults(tasks, finished) == [i \in 1..Len(tasks) |-> tasks[i].block]

(***************************************************************************)
(* Inputs: the fragment lists given to the pipeline and the replies the    *)
(* remote service may give.                                                *)
(***************************************************************************)
\* fragment lists given to extract_and_verify_claims: the empty list, a list of
\* blank fragments, and a list with text between blanks
InputChunks ==
    { <<>>,
      << <<" ">>, <<>>, <<"\n", " ">> >>,
      << <<" ", "d", " ">>, <<" ">>, <<"e">> >> }

Letters == <<"a", "b", "c", "d", "e", "f", "g", "h", "i", "j">>

ClaimsLine == <<"C", "l", "a", "i", "m", "s", ":">>
BulletLine(i) == <<"-", " ", Letters[i]>>

\* "Claims:" followed by k bullet lines
BulletText(k) == Join(<<ClaimsLine>> \o [i \in 1..k |-> BulletLine(i)], NL)

\* a title, a bullet without a space, an empty bullet and a stray line
TitledText ==
    <<"T", "i", "t", "l", "e", ":", " ", "R", "\n">> \o ClaimsLine \o NL
    \o <<"-", "a", "\n", "-", " ", "\n", "x", "\n", " ", "-", " ", "b", " ">>

\* a sentinel title in upper case
SentinelText == <<"T", "I", "T", "L", "E", ":", " ", "N", "o", "n", "e", "\n", "-", " ", "a">>

\* an answer that ignores the bullet format
PlainText == <<"x", " ", "y", "\n", "z">>

ExtractionTexts ==
    {BulletText(k) : k \in 0..MaxClaims} \cup {TitledText, SentinelText, PlainText}

VerificationTexts ==
    { <<"Status: green", "\n", "Explanation: supported.", "\n", "Citations: none">>,
      <<"Status: red", "\n", "Explanation: contradicted.", "\n", "Citations:", "\n",
        "- source (url)">> }

\* replies that make _run_vertex_request raise: no response, a non-success
\* status, no candidate, a first candidate with no text after trimming
FailureReplies ==
    { [reached |-> FALSE, status |-> 500, candidates |-> <<>>],
      [reached |-> TRUE, status |-> 500, candidates |-> <<>>],
      [reached |-> TRUE, status |-> StatusOk, candidates |-> <<>>],
      [reached |-> TRUE, status |-> StatusOk,
       candidates |-> << << <<" ">>, <<>>, <<"\n">> >>, << <<"x">> >> >>] }

\* a successful reply whose first candidate carries `text` between blanks
TextReply(text) ==
    [reached |-> TRUE, status |-> StatusOk,
     candidates |-> << << <<>>, <<" ">> \o text \o <<"\n">> >> >>]

ExtractionReplies == FailureReplies \cup {TextReply(t) : t \in ExtractionTexts}

\* for a verification request, two of the failures stand for the four
VerificationFailureReplies ==
    {r \in FailureReplies : ~r.reached \/ r.candidates # <<>>}

VerificationReplies ==
    VerificationFailureReplies \cup {TextReply(t) : t \in VerificationTexts}

(***************************************************************************)
(* State.                                                                  *)
(***************************************************************************)
VARIABLES
    chunks,               \* the argument of extract_and_verify_claims
    pc,                   \* idle | extracting | verifying | returned | raised
    attempt,              \* attempt number of the retry decorator
    document_text,        \* locals of extract_and_verify_claims
    document_title,
    claim_statements,
    extraction_markdown,
    semaphore,            \* the value of asyncio.Semaphore
    tasks,                \* verification_tasks, in creation order
    finished,             \* indices of the tasks in completion order
    inflight,             \* gateway requests sent and not yet answered
    extractionSent,       \* number of extraction requests sent so far
    extractionAnswered,   \* how the last extraction request ended: none | text | failure
    exc,                  \* the exception caught by the except clause
    result,               \* the AnalysisResponse handed to the caller
    returned,             \* number of AnalysisResponse values handed to the caller
    gateway,              \* the Vertex endpoint: any reply, or one reply per prompt
    response_lines,       \* the lines a response text is written from
    response_text,        \* the argument of _parse_claim_extraction_text
    parsed,               \* what _parse_claim_extraction_text returned
    vertex_reply,         \* the HTTP reply _run_vertex_request receives
    vertex_answer,        \* how _run_vertex_request ended
    pdf_text,             \* the arguments of chunk_text: text, chunk_size, overlap
    chunk_size,
    overlap,
    start,                \* locals of chunk_text
    end,
    yielded,              \* the chunks handed to the consumer so far
    chunker               \* the generator: idle | created | running | exhausted | raised

vars == <<chunks, pc, attempt, document_text, document_title, claim_statements,
          extraction_markdown, semaphore, tasks, finished, inflight,
          extractionSent, extractionAnswered, exc, result, returned, gateway,
          response_lines, response_text, parsed, vertex_reply, vertex_answer,
          pdf_text, chunk_size, overlap, start, end, yielded, chunker>>

\* the state of the functions that extract_and_verify_claims does not run
units == <<gateway, response_lines, response_text, parsed, vertex_reply,
           vertex_answer, pdf_text, chunk_size, overlap, start, end, yielded, chunker>>

locals == <<document_text, document_title, claim_statements, extraction_markdown,
            semaphore, tasks, finished, exc>>

ExtractionRequest(text) ==
    [stage |-> "claim extraction", index |-> 0,
     prompt |-> BuildClaimExtractionPrompt(text)]

VerificationRequest(index) ==
    [stage |-> "verification", index |-> index,
     prompt |-> BuildClaimVerificationPrompt(claim_statements[index], document_text,
                                             document_title)]

\* asyncio.create_task(_verify_claim_with_logging(...)) for every claim
CreateTasks(statements) ==
    [i \in 1..Len(statements) |->
        [state |-> "pending", sent |-> 0, answered |-> "none", answer |-> <<>>,
         block |-> <<>>, exc |-> NoException]]

AnyReply == [deterministic |-> FALSE]
NotParsed == [done |-> FALSE, document_title |-> <<>>, claims |-> <<>>]
NoReply == [reached |-> FALSE, status |-> 0, candidates |-> <<>>]
NoAnswer == [done |-> FALSE, ok |-> FALSE, text |-> <<>>, exc |-> NoException]

\* no parser call, no gateway call and no generator exist
ParserIdle == response_lines = <<>> /\ response_text = <<>> /\ parsed = NotParsed
RequestIdle == vertex_reply = NoReply /\ vertex_answer = NoAnswer
ChunkerIdle ==
    /\ pdf_text = <<>>
    /\ chunk_size = 0
    /\ overlap = 0
    /\ start = 0
    /\ end = 0
    /\ yielded = <<>>
    /\ chunker = "idle"

\* extract_and_verify_claims has not been called
PipelineIdle ==
    /\ pc = "idle"
    /\ attempt = 1
    /\ document_text = <<>>
    /\ document_title = <<>>
    /\ claim_statements = <<>>
    /\ extraction_markdown = <<>>
    /\ semaphore = 0
    /\ tasks = <<>>
    /\ finished = <<>>
    /\ inflight = {}
    /\ extractionSent = 0
    /\ extractionAnswered = "none"
    /\ exc = NoException
    /\ result = NoResult
    /\ returned = 0

Init ==
    /\ chunks \in InputChunks
    /\ gateway = AnyReply
    /\ ParserIdle
    /\ RequestIdle
    /\ ChunkerIdle
    /\ pc = "idle"
    /\ attempt = 1
    /\ document_text = <<>>
    /\ document_title = <<>>
    /\ claim_statements = <<>>
    /\ extraction_markdown = <<>>
    /\ semaphore = 0
    /\ tasks = <<>>
    /\ finished = <<>>
    /\ inflight = {}
    /\ extractionSent = 0
    /\ extractionAnswered = "none"
    /\ exc = NoException
    /\ result = NoResult
    /\ returned = 0

(***************************************************************************)
(* The retry decorator: a returned value goes to the caller; an exception  *)
(* restarts the body until MaxAttempts, then is re-raised (reraise=True).  *)
(***************************************************************************)
Tenacity(outcome) ==
    IF ~outcome.raised
    THEN /\ pc' = "returned"
         /\ result' = outcome.value
         /\ returned' = returned + 1
         /\ attempt' = attempt
    ELSE IF attempt < MaxAttempts
    THEN /\ pc' = "idle"
         /\ attempt' = attempt + 1
         /\ UNCHANGED <<result, returned>>
    ELSE /\ pc' = "raised"
         /\ UNCHANGED <<attempt, result, returned>>

(***************************************************************************)
(* When each step of the run can be taken.                                 *)
(***************************************************************************)
\* the body has not started (first call, or a restart by the decorator)
CanCall == pc = "idle"

\* the body awaits the extraction request
AwaitsExtraction ==
    /\ pc = "extracting"
    /\ ExtractionRequest(document_text) \in inflight

\* variant: the tasks are not gated
CanAcquire_Ungated(value) == TRUE

\* `async with semaphore` is entered only while the semaphore is positive
CanAcquire(value) == value > 0

\* task `index` waits at `async with semaphore` and is the next to enter: the
\* event loop starts the tasks in creation order and the semaphore wakes its
\* waiters first come, first served, so the tasks enter in index order
CanEnter(index) ==
    /\ index \in 1..Len(tasks)
    /\ tasks[index].state = "pending"
    /\ \A earlier \in 1..index - 1 : tasks[earlier].state # "pending"
    /\ CanAcquire(semaphore)

\* task `index` awaits its verification request
AwaitsVerification(index) ==
    /\ index \in 1..Len(tasks)
    /\ tasks[index].state = "running"

FailedTasks == {i \in 1..Len(tasks) : tasks[i].state = "failed"}

\* `await asyncio.gather(...)` can resume: every task is done, or one raised
CanGather ==
    /\ pc = "verifying"
    /\ \/ FailedTasks # {}
       \/ \A i \in 1..Len(tasks) : tasks[i].state = "done"

\* some step of the run can be taken
Running ==
    \/ CanCall
    \/ AwaitsExtraction
    \/ \E index \in 1..Len(tasks) : CanEnter(index) \/ AwaitsVerification(index)
    \/ CanGather

(***************************************************************************)
(* Actions.                                                                *)
(***************************************************************************)
\* the body up to its first await: the early return for an empty list, or
\* the document text assembled and the extraction request sent
Call ==
    /\ CanCall
    /\ IF chunks = <<>>
       THEN /\ Tenacity(Returned(EmptyDocumentResponse))
            /\ UNCHANGED <<chunks, locals, inflight, extractionSent, extractionAnswered>>
       ELSE /\ document_text' = FormatDocumentChunks(chunks)
            /\ inflight' = inflight \cup {ExtractionRequest(FormatDocumentChunks(chunks))}
            /\ extractionSent' = extractionSent + 1
            /\ pc' = "extracting"
            /\ document_title' = <<>>
            /\ claim_statements' = <<>>
            /\ extraction_markdown' = <<>>
            /\ semaphore' = 0
            /\ tasks' = <<>>
            /\ finished' = <<>>
            /\ exc' = NoException
            /\ UNCHANGED <<chunks, attempt, result, returned, extractionAnswered>>
    /\ UNCHANGED units

\* the extraction request ends with `reply`: the except clause on a failure,
\* otherwise the answer is parsed, and either the run returns (no claim) or
\* the semaphore and one task per claim are created
ExtractionReply(reply) ==
    /\ AwaitsExtraction
    /\ inflight' = inflight \ {ExtractionRequest(document_text)}
    /\ extractionAnswered' = IF RunVertexRequest(reply).ok THEN "text" ELSE "failure"
    /\ \E stage1 \in {ExtractClaimStatements(document_text, RunVertexRequest(reply))} :
           IF stage1.raised
           THEN /\ exc' = stage1.exc
                /\ Tenacity(ExceptClause(stage1.exc))
                /\ UNCHANGED <<document_title, claim_statements, extraction_markdown,
                               semaphore, tasks>>
           ELSE /\ document_title' = stage1.document_title
                /\ claim_statements' = stage1.claims
                /\ extraction_markdown' = stage1.response_text
                /\ exc' = exc
                /\ IF stage1.claims = <<>>
                   THEN /\ Tenacity(Returned(
                               NoClaimsResponse(stage1.document_title,
                                                stage1.response_text)))
                        /\ UNCHANGED <<semaphore, tasks>>
                   ELSE /\ semaphore' = VERIFICATION_CONCURRENCY
                        /\ tasks' = CreateTasks(stage1.claims)
                        /\ pc' = "verifying"
                        /\ UNCHANGED <<attempt, result, returned>>
    /\ UNCHANGED <<chunks, document_text, finished, extractionSent>>
    /\ UNCHANGED units

\* task `index` enters `async with semaphore` and sends its request
AcquireAndSend(index) ==
    /\ CanEnter(index)
    /\ semaphore' = semaphore - 1
    /\ tasks' = [tasks EXCEPT ![index].state = "running", ![index].sent = @ + 1]
    /\ inflight' = inflight \cup {VerificationRequest(index)}
    /\ UNCHANGED <<chunks, pc, attempt, document_text, document_title,
                   claim_statements, extraction_markdown, finished,
                   extractionSent, extractionAnswered, exc, result, returned>>
    /\ UNCHANGED units

\* variant: the slot is given back only when the request succeeded
Release_OnSuccess(value, succeeded) == IF succeeded THEN value + 1 ELSE value

\* leaving `async with semaphore`: the slot is given back whether the request
\* succeeded or not
Release(value, succeeded) == value + 1

\* the request of task `index` ends with `reply`: the task builds its block,
\* leaves `async with semaphore` and completes
VerificationReply(index, reply) ==
    /\ AwaitsVerification(index)
    /\ \E answer \in {RunVertexRequest(reply)} :
       \E outcome \in {VerifyClaimWithLogging(index, claim_statements[index], answer)} :
          /\ tasks' = [tasks EXCEPT
                          ![index].state = IF outcome.raised THEN "failed" ELSE "done",
                          ![index].answered = IF answer.ok THEN "text" ELSE "failure",
                          ![index].answer = answer.text,
                          ![index].block = outcome.block,
                          ![index].exc = outcome.exc]
          /\ semaphore' = Release(semaphore, answer.ok)
    /\ inflight' = inflight \ {VerificationRequest(index)}
    /\ finished' = IF Len(tasks) <= MaxOrdered THEN Append(finished, index) ELSE finished
    /\ UNCHANGED <<chunks, pc, attempt, document_text, document_title,
                   claim_statements, extraction_markdown, extractionSent,
                   extractionAnswered, exc, result, returned>>
    /\ UNCHANGED units

\* `await asyncio.gather(...)` resumes: with the blocks once every task is
\* done, or with the exception of a task as soon as one has raised
Gather ==
    /\ CanGather
    /\ IF FailedTasks # {}
       THEN /\ exc' = tasks[SetMin(FailedTasks)].exc
            /\ Tenacity(ExceptClause(tasks[SetMin(FailedTasks)].exc))
       ELSE /\ exc' = exc
            /\ \E analysis_blocks \in {GatherResults(tasks, finished)} :
               \E response \in
                     {IF analysis_blocks = <<>>
                      THEN NoVerificationsResponse(document_title)
                      ELSE AssembledResponse(document_title, extraction_markdown,
                                             analysis_blocks)} :
                  Tenacity(Returned(response))
    /\ UNCHANGED <<chunks, document_text, document_title, claim_statements,
                   extraction_markdown, semaphore, tasks, finished, inflight,
                   extractionSent, extractionAnswered>>
    /\ UNCHANGED units

Next ==
    \/ Call
    \/ \E reply \in ExtractionReplies : ExtractionReply(reply)
    \/ \E index \in 1..MaxClaims : AcquireAndSend(index)
    \/ \E index \in 1..MaxClaims, reply \in VerificationReplies :
          VerificationReply(index, reply)
    \/ Gather

Spec == Init /\ [][Next]_vars

\* the scheduling of the event loop: a coroutine that can run does run, and
\* every request sent to the gateway ends (with a reply or a failure), so a
\* run in which some step can be taken does take a step
FairSpec == Spec /\ WF_vars(Next)

(***************************************************************************)
(* Reading a combined report back.                                         *)
(***************************************************************************)
K == Len(claim_statements)
TaskIndices == 1..Len(tasks)
VerificationInFlight == {r \in inflight : r.stage = "verification"}
ExtractionInFlight == {r \in inflight : r.stage = "claim extraction"}
VerificationUnavailable == <<"Verification unavailable">>

\* the run went through the verification stage and has returned
ReturnedAfterVerifying == pc = "returned" /\ tasks # <<>>

\* positions of the block headings in a report
Heads(md) == {p \in 1..Len(md) : md[p] = "### Claim "}
NthHead(md, n) ==
    CHOOSE h \in Heads(md) : Cardinality({q \in Heads(md) : q <= h}) = n

\* the n-th block of a report, without the blank line that separates it from
\* the next block
ReportBlock(md, n) ==
    SubSeq(md, NthHead(md, n),
           IF n < Cardinality(Heads(md)) THEN NthHead(md, n + 1) - 3 ELSE Len(md))

\* the heading of the block of the n-th extracted claim
ExpectedHeading(n) ==
    <<"### Claim ">> \o IntToText(n) \o <<"\n", "**Statement:** ">>
    \o claim_statements[n] \o <<"\n", "\n">>

DegradedBody ==
    <<"Status: yellow", "\n",
      "Explanation: Verification failed due to an internal error.", "\n",
      "Citations: none">>

(***************************************************************************)
(* Claims.                                                                 *)
(***************************************************************************)
\* C1: whatever the fragments and whatever the gateway does, one call of
\* extract_and_verify_claims hands its caller exactly one AnalysisResponse and
\* never an exception: no state has raised, at most one response is handed
\* over, and the run can only stop once it has returned a response.
C1_OneResponseNoException ==
    /\ pc # "raised"
    /\ attempt = 1
    /\ returned <= 1
    /\ (pc = "returned") <=> (returned = 1)
    /\ pc = "returned" => result # NoResult
    /\ ~Running => pc = "returned"

\* a run that returned although a gateway request of it had failed
C1_Witness ==
    /\ pc = "returned"
    /\ returned = 1
    /\ exc # NoException

\* C2: at most VERIFICATION_CONCURRENCY (5) verification requests are sent and
\* not yet completed, in every state of every run, also with more than 5 claims.
C2_AtMostFiveInFlight ==
    Cardinality(VerificationInFlight) <= VERIFICATION_CONCURRENCY

\* more than 5 claims, 5 requests in flight and a task still waiting
C2_Witness ==
    /\ Len(tasks) > VERIFICATION_CONCURRENCY
    /\ Cardinality(VerificationInFlight) = VERIFICATION_CONCURRENCY
    /\ \E i \in TaskIndices : tasks[i].state = "pending"

\* C3: whatever the order in which the tasks complete, the report lists the
\* blocks in extraction order: it has K blocks and the i-th is headed
\* "Claim i" and carries the i-th extracted claim statement.
C3_BlocksInExtractionOrder ==
    ReturnedAfterVerifying =>
        /\ Cardinality(Heads(result.analysis_markdown)) = K
        /\ \A i \in 1..K :
              StartsWith(ReportBlock(result.analysis_markdown, i), ExpectedHeading(i))

\* a returned run whose tasks completed in another order than they were created
C3_Witness ==
    /\ ReturnedAfterVerifying
    /\ Len(finished) >= 2
    /\ \E k \in 1..Len(finished) - 1 : finished[k] > finished[k + 1]

\* C4: a failed verification request does not fail the run: the report has K
\* blocks, the block of a claim whose request failed is the fixed degraded
\* block under that claim's heading, the block of every other claim carries
\* the answer to its own request, and every task has run its request.
C4_FailureIsolated ==
    ReturnedAfterVerifying =>
        /\ result.document_title # VerificationUnavailable
        /\ exc = NoException
        /\ Len(tasks) = K
        /\ Cardinality(Heads(result.analysis_markdown)) = K
        /\ \A i \in 1..K :
              /\ tasks[i].state = "done"
              /\ tasks[i].sent = 1
              /\ ReportBlock(result.analysis_markdown, i) =
                    ExpectedHeading(i)
                    \o (IF tasks[i].answered = "failure" THEN DegradedBody
                        ELSE tasks[i].answer)

\* a returned run with a failed request and an answered one
C4_Witness ==
    /\ ReturnedAfterVerifying
    /\ \E i, j \in TaskIndices :
          /\ tasks[i].answered = "failure"
          /\ tasks[j].answered = "text"

\* C5 (as claimed): the extraction request and each verification request are
\* sent up to 3 times, and a failure is surfaced only after the third failed
\* attempt: a degraded run has sent its extraction request 3 times and a
\* degraded block stands for 3 failed verification requests.
C5_FailureSurfacedAfterThreeAttempts ==
    /\ (pc = "returned" /\ extractionAnswered = "failure") =>
          extractionSent = MaxAttempts
    /\ \A i \in TaskIndices :
          (tasks[i].state = "done" /\ tasks[i].answered = "failure") =>
              tasks[i].sent = MaxAttempts

\* every fragment of the input is empty or whitespace
BlankInput == \A n \in 1..Len(chunks) : Strip(chunks[n]) = <<>>

\* C6 (as claimed): for an empty fragment list or fragments that are all empty
\* or whitespace, no gateway request is sent and the result has an empty
\* claims list.
C6_BlankInputSendsNothing ==
    BlankInput =>
        /\ extractionSent = 0
        /\ inflight = {}
        /\ tasks = <<>>
        /\ pc = "returned" => result.claims = <<>>

\* C8: when the extraction request fails, the run has ended degraded without a
\* verification task or request: title "Verification unavailable", exactly one
\* synthetic yellow claim saying the claims could not be verified, and a
\* markdown body that ends with "Reason: " and the failure.
C8_ExtractionFailureDegrades ==
    extractionAnswered = "failure" =>
        /\ pc = "returned"
        /\ tasks = <<>>
        /\ VerificationInFlight = {}
        /\ exc # NoException
        /\ result.document_title = VerificationUnavailable
        /\ Len(result.claims) = 1
        /\ result.claims[1].status = "yellow"
        /\ result.claims[1].statement = "We could not verify claims for this document."
        /\ LET md == result.analysis_markdown
           IN  /\ Len(md) >= 2
               /\ md[Len(md) - 1] = "Reason: "
               /\ md[Len(md)] = exc

\* a run whose extraction request failed for want of a candidate
C8_Witness ==
    /\ extractionAnswered = "failure"
    /\ exc = "Vertex AI returned no candidates."
    /\ pc = "returned"

\* C9: a verification request is sent only after the extraction request has
\* been answered with a text, and the extraction request is never in flight
\* together with a verification request.
C9_TwoStageSequencing ==
    /\ (VerificationInFlight # {} \/ \E i \in TaskIndices : tasks[i].sent > 0) =>
          /\ extractionAnswered = "text"
          /\ ExtractionInFlight = {}
    /\ ExtractionInFlight # {} =>
          /\ VerificationInFlight = {}
          /\ tasks = <<>>

\* verification requests in flight after an answered extraction
C9_Witness ==
    /\ Cardinality(VerificationInFlight) >= 2
    /\ extractionAnswered = "text"
    /\ extractionSent = 1

\* every slot of the gate is either free or held by a task awaiting its request
SlotsAccounted ==
    tasks # <<>> =>
        /\ semaphore >= 0
        /\ semaphore + Cardinality({i \in TaskIndices : tasks[i].state = "running"})
              = VERIFICATION_CONCURRENCY

\* C10: when every gateway request ends, the run returns a result, also with
\* more than 5 claims: every waiting task gets a slot, a slot is given back
\* when its task completes whether the request succeeded or failed (no slot
\* leaks), and no task waits forever.
C10_RunTerminates ==
    /\ []SlotsAccounted
    /\ <>(/\ pc = "returned"
          /\ \A i \in TaskIndices : tasks[i].state = "done"
          /\ tasks # <<>> => semaphore = VERIFICATION_CONCURRENCY)

\* a returned run of more than 5 claims in which a request failed and all
\* slots are free again
C10_Witness ==
    /\ pc = "returned"
    /\ Len(tasks) > VERIFICATION_CONCURRENCY
    /\ \E i \in TaskIndices : tasks[i].answered = "failure"
    /\ semaphore = VERIFICATION_CONCURRENCY

(***************************************************************************)
(* _parse_claim_extraction_text on its own: the response text is written   *)
(* from lines of known kinds, so that what a line should contribute        *)
(* (payload: its remainder after the keyword or the dash, trimmed) is      *)
(* known without parsing it.                                               *)
(***************************************************************************)
ResponseLine(kind, line, payload, sentinel) ==
    [kind |-> kind, line |-> line, payload |-> payload, sentinel |-> sentinel]

ResponseLineKinds ==
    { ResponseLine("title", <<"T", "i", "T", "l", "e", ":", " ", "R", " ">>, <<"R">>, FALSE),
      ResponseLine("title", <<"T", "I", "T", "L", "E", ":", " ", "N", "o", "n", "e">>,
                   <<"N", "o", "n", "e">>, TRUE),
      ResponseLine("title", <<"t", "i", "t", "l", "e", ":", "N", "/", "A">>,
                   <<"N", "/", "A">>, TRUE),
      ResponseLine("title", <<"T", "i", "t", "l", "e", ":">>, <<>>, FALSE),
      ResponseLine("claims", <<"C", "L", "A", "I", "M", "S", ":", " ">>, <<>>, FALSE),
      ResponseLine("bullet", <<"-", " ", "a">>, <<"a">>, FALSE),
      ResponseLine("bullet", <<" ", "-", "b", " ">>, <<"b">>, FALSE),
      ResponseLine("bullet", <<"-", " ">>, <<>>, FALSE),
      ResponseLine("other", <<"x", " ", "y">>, <<>>, FALSE),
      ResponseLine("blank", <<" ">>, <<>>, FALSE) }

ResponseLineSeqs == UNION {[1..n -> ResponseLineKinds] : n \in 0..MaxLines}

\* "\n".join of the lines
ResponseText(lines) == Join([i \in 1..Len(lines) |-> lines[i].line], NL)

ParserInit ==
    /\ chunks = <<>>
    /\ gateway = AnyReply
    /\ PipelineIdle
    /\ RequestIdle
    /\ ChunkerIdle
    /\ response_lines \in ResponseLineSeqs
    /\ response_text = ResponseText(response_lines)
    /\ parsed = NotParsed

\* one call of _parse_claim_extraction_text(response_text)
Parse ==
    /\ ~parsed.done
    /\ response_text = ResponseText(response_lines)
    /\ \E outcome \in {ParseClaimExtractionText(response_text)} :
          parsed' = [done |-> TRUE, document_title |-> outcome.document_title,
                     claims |-> outcome.claims]
    /\ UNCHANGED <<chunks, pc, attempt, locals, inflight, extractionSent,
                   extractionAnswered, result, returned, gateway, response_lines,
                   response_text, vertex_reply, vertex_answer, pdf_text, chunk_size,
                   overlap, start, end, yielded, chunker>>

ParserNext == Parse

ParserSpec == ParserInit /\ [][ParserNext]_vars

(***************************************************************************)
(* What the lines of a response should contribute.                         *)
(***************************************************************************)
IsBullet(l) == l.kind = "bullet"
IsStatedBullet(l) == l.kind = "bullet" /\ l.payload # <<>>
IsTitle(l) == l.kind = "title"
LinesOf(lines) == {lines[i] : i \in 1..Len(lines)}
HasBulletLine == \E l \in LinesOf(response_lines) : IsBullet(l)
\* the trimmed non-empty bullet remainders, in line order
BulletStatements ==
    [i \in 1..Len(SelectSeq(response_lines, IsStatedBullet)) |->
        SelectSeq(response_lines, IsStatedBullet)[i].payload]
WholeResponse == <<Strip(response_text)>>

\* an optional title line, then an optional "Claims:" line, then bullet lines
InBulletFormat ==
    \E t \in 0..1, c \in 0..1 :
       /\ t + c <= Len(response_lines)
       /\ t = 1 => response_lines[1].kind = "title"
       /\ c = 1 => response_lines[t + 1].kind = "claims"
       /\ \A i \in (t + c + 1)..Len(response_lines) : IsBullet(response_lines[i])
TitleLines == SelectSeq(response_lines, IsTitle)
\* the trimmed remainder of the title line, empty without a title line
TitleRemainder == IF TitleLines = <<>> THEN <<>> ELSE TitleLines[1].payload
NamesNoTitle(l) == l.sentinel \/ l.payload = <<>>

\* C11 as stated: the whole trimmed response is the single claim exactly
\* when the response is not blank and has no line starting with a dash; with
\* bullet lines the claims are exactly the non-empty bullet remainders
C11_FallbackExactlyWithoutBulletLines ==
    parsed.done =>
       /\ parsed.claims = WholeResponse
             <=> (Strip(response_text) # <<>> /\ ~HasBulletLine)
       /\ HasBulletLine => parsed.claims = BulletStatements

\* C11 amended: the whole trimmed response is the single claim exactly when
\* the response is not blank and no bullet line has text after its dash; when
\* some bullet line has text the claims are exactly the trimmed non-empty
\* bullet remainders in line order; a blank response has no claim
C11_FallbackExactlyWithoutStatedBullets ==
    parsed.done =>
       /\ parsed.claims = WholeResponse
             <=> (Strip(response_text) # <<>> /\ BulletStatements = <<>>)
       /\ BulletStatements # <<>> => parsed.claims = BulletStatements
       /\ Strip(response_text) = <<>> => parsed.claims = <<>>

C11_Witness ==
    /\ parsed.done
    /\ HasBulletLine
    /\ BulletStatements = <<>>
    /\ parsed.claims = WholeResponse
    /\ \E l \in LinesOf(response_lines) : l.kind = "other"

\* C12 as stated: for a response in the bullet format the claims are the
\* non-empty bullet remainders in line order and the title is the trimmed
\* remainder of the title line, whatever the letter case of the keywords
C12_BulletFormatParsed ==
    (parsed.done /\ InBulletFormat) =>
       /\ parsed.claims = BulletStatements
       /\ parsed.document_title = TitleRemainder

\* C12 amended: for a response in the bullet format in which some bullet
\* line has text, the claims are the non-empty bullet remainders in line
\* order; the title is the trimmed remainder of the title line unless that
\* remainder is empty or a sentinel, and is unset then
C12_StatedBulletFormatParsed ==
    (parsed.done /\ InBulletFormat) =>
       /\ BulletStatements # <<>> => parsed.claims = BulletStatements
       /\ parsed.document_title =
             IF TitleLines # <<>> /\ ~NamesNoTitle(TitleLines[1])
             THEN TitleRemainder ELSE <<>>

C12_Witness ==
    /\ parsed.done
    /\ InBulletFormat
    /\ Len(response_lines) = MaxLines
    /\ response_lines[1].kind = "title"
    /\ parsed.document_title = <<"R">>
    /\ parsed.claims = << <<"a">>, <<"b">> >>

\* C13: a response whose title lines all have an empty or sentinel
\* remainder (in any letter case) has no title, the result built
\* from it carries the default title, and no parsed title is a sentinel
C13_SentinelTitleUnset ==
    parsed.done =>
       /\ (\A l \in LinesOf(TitleLines) : NamesNoTitle(l)) =>
             /\ parsed.document_title = <<>>
             /\ NoClaimsResponse(parsed.document_title, response_text).document_title
                   = UploadedDocument
             /\ AssembledResponse(parsed.document_title, response_text,
                                  << <<"x">> >>).document_title = UploadedDocument
       /\ \A l \in LinesOf(response_lines) :
             l.sentinel => parsed.document_title # l.payload

C13_Witness ==
    /\ parsed.done
    /\ \E l \in LinesOf(TitleLines) : l.sentinel
    /\ \A l \in LinesOf(TitleLines) : NamesNoTitle(l)
    /\ parsed.claims = << <<"a">> >>
    /\ AssembledResponse(parsed.document_title, response_text,
                         << <<"x">> >>).document_title = UploadedDocument

(***************************************************************************)
(* _run_vertex_request on its own: one request, answered by any reply with *)
(* up to MaxCandidates candidates.                                         *)
(***************************************************************************)
\* candidates by the texts of their parts: without parts, blank, blank with
\* an empty part, with one text, with texts around an empty part
CandidateKinds ==
    { <<>>,
      << <<" ">> >>,
      << <<>>, <<"\n">> >>,
      << <<"x">> >>,
      << <<" ", "y">>, <<>>, <<"z", " ">> >> }

CandidateSeqs == UNION {[1..n -> CandidateKinds] : n \in 0..MaxCandidates}

\* HTTP statuses of a reply: 200, another 2xx, a server error
ReplyStatuses == {StatusOk, 204, 500}

VertexReplies ==
    {NoReply} \cup
    {[reached |-> TRUE, status |-> s, candidates |-> c] :
        s \in ReplyStatuses, c \in CandidateSeqs}

RequestInit ==
    /\ chunks = <<>>
    /\ gateway = AnyReply
    /\ PipelineIdle
    /\ ParserIdle
    /\ ChunkerIdle
    /\ vertex_reply \in VertexReplies
    /\ vertex_answer = NoAnswer

\* one call of _run_vertex_request, the service answering with vertex_reply
SendRequest ==
    /\ ~vertex_answer.done
    /\ \E answer \in {RunVertexRequest(vertex_reply)} :
          vertex_answer' = [done |-> TRUE, ok |-> answer.ok, text |-> answer.text,
                            exc |-> answer.exc]
    /\ UNCHANGED <<chunks, pc, attempt, locals, inflight, extractionSent,
                   extractionAnswered, result, returned, gateway, response_lines,
                   response_text, parsed, vertex_reply, pdf_text, chunk_size,
                   overlap, start, end, yielded, chunker>>

RequestNext == SendRequest

RequestSpec == RequestInit /\ [][RequestNext]_vars

\* some part of the candidate has a character that is not white space
CarriesText(candidate) ==
    \E i \in 1..Len(candidate) : \E j \in 1..Len(candidate[i]) :
       ~IsSpace(candidate[i][j])
SuccessStatus(status) == status \in 200..299
NotBlank(s) == \E i \in 1..Len(s) : ~IsSpace(s[i])

\* C14 as stated: a request that the service answers fails exactly when the
\* status is not a success, there is no candidate, or no candidate carries
\* text; otherwise it returns text that is not blank
C14_FailsUnlessSomeCandidateHasText ==
    (vertex_answer.done /\ vertex_reply.reached) =>
       /\ ~vertex_answer.ok <=>
             \/ ~SuccessStatus(vertex_reply.status)
             \/ vertex_reply.candidates = <<>>
             \/ \A i \in 1..Len(vertex_reply.candidates) :
                   ~CarriesText(vertex_reply.candidates[i])
       /\ vertex_answer.ok => NotBlank(vertex_answer.text)

\* C14 amended: a request fails exactly when no response arrives, the
\* status is not 200, there is no candidate, or the first candidate carries
\* no text; otherwise it returns text that is trimmed and not blank
C14_FailsUnlessFirstCandidateHasText ==
    vertex_answer.done =>
       /\ ~vertex_answer.ok <=>
             \/ ~vertex_reply.reached
             \/ vertex_reply.status # 200
             \/ vertex_reply.candidates = <<>>
             \/ ~CarriesText(vertex_reply.candidates[1])
       /\ vertex_answer.ok =>
             /\ NotBlank(vertex_answer.text)
             /\ ~IsSpace(vertex_answer.text[1])
             /\ ~IsSpace(vertex_answer.text[Len(vertex_answer.text)])
       /\ ~vertex_answer.ok => vertex_answer.exc # NoException

C14_Witness ==
    /\ vertex_answer.done
    /\ vertex_reply.reached
    /\ vertex_reply.status = 200
    /\ Len(vertex_reply.candidates) >= 2
    /\ ~CarriesText(vertex_reply.candidates[1])
    /\ CarriesText(vertex_reply.candidates[2])
    /\ ~vertex_answer.ok

(***************************************************************************)
(* chunk_text on its own.  It is a generator: its body runs as the         *)
(* consumer (list(...) in analyze_document) asks for chunks.  A yielded    *)
(* chunk is kept with the position `at` where it was cut.                  *)
(***************************************************************************)
\* texts of distinct characters, so that a character names its position
PdfTexts == {SubSeq(Letters, 1, n) : n \in 0..MaxTextLen}
ChunkSizes == (0 - MaxChunkSize)..MaxChunkSize
\* a text of n characters gives at most n chunks; one more can be recorded
MaxYielded == MaxTextLen + 2

ChunkerInit ==
    /\ chunks = <<>>
    /\ gateway = AnyReply
    /\ PipelineIdle
    /\ ParserIdle
    /\ RequestIdle
    /\ pdf_text \in PdfTexts
    /\ chunk_size \in ChunkSizes
    /\ overlap \in ChunkSizes
    /\ start = 0
    /\ end = 0
    /\ yielded = <<>>
    /\ chunker = "created"

notChunker == <<chunks, pc, attempt, locals, inflight, extractionSent,
                extractionAnswered, result, returned, gateway, response_lines,
                response_text, parsed, vertex_reply, vertex_answer>>

\* the first request for a chunk runs the body up to the loop
ChunkTextEnter ==
    /\ chunker = "created"
    /\ IF ConfigurationError(chunk_size, overlap)
       THEN /\ chunker' = "raised"
            /\ UNCHANGED <<start, end>>
       ELSE /\ chunker' = "running"
            /\ start' = 0
            /\ end' = chunk_size
    /\ UNCHANGED <<pdf_text, chunk_size, overlap, yielded, notChunker>>

\* one turn of the loop: a chunk is yielded and the window moves
ChunkTextYield ==
    /\ chunker = "running"
    /\ start < Len(pdf_text)
    /\ Len(yielded) < MaxYielded
    /\ yielded' = Append(yielded, [chunk |-> Slice(pdf_text, start, end), at |-> start])
    /\ start' = NextStart(end, overlap)
    /\ end' = NextStart(end, overlap) + chunk_size
    /\ UNCHANGED <<pdf_text, chunk_size, overlap, chunker, notChunker>>

\* the loop condition fails: the generator is exhausted
ChunkTextReturn ==
    /\ chunker = "running"
    /\ ~(start < Len(pdf_text))
    /\ chunker' = "exhausted"
    /\ UNCHANGED <<pdf_text, chunk_size, overlap, start, end, yielded, notChunker>>

ChunkerNext == ChunkTextEnter \/ ChunkTextYield \/ ChunkTextReturn

ChunkerSpec == ChunkerInit /\ [][ChunkerNext]_vars

\* list(chunk_text(...)) asks for chunks until the generator ends
FairChunkerSpec == ChunkerSpec /\ WF_vars(ChunkerNext)

ChunkEnd(j) == yielded[j].at + Len(yielded[j].chunk)
\* the chunk is the part of the text that begins at the position it was cut at
IsSubstringAt(j) ==
    /\ yielded[j].at >= 0
    /\ ChunkEnd(j) <= Len(pdf_text)
    /\ \A i \in 1..Len(yielded[j].chunk) :
          yielded[j].chunk[i] = pdf_text[yielded[j].at + i]
PositionCovered(p) ==
    \E j \in 1..Len(yielded) : yielded[j].at < p /\ p <= ChunkEnd(j) /\ IsSubstringAt(j)
ChunkerEnded == chunker \in {"exhausted", "raised"}

\* C16: chunk_text ends for every text, chunk_size and overlap; with
\* chunk_size > overlap it yields finitely many substrings of the text in
\* the order of their positions; with chunk_size <= overlap it raises the
\* configuration error and yields no chunk
C16_ChunkTextTerminates ==
    /\ <>ChunkerEnded
    /\ [](chunker = "raised" <=> (chunker # "created" /\ chunk_size <= overlap))
    /\ [](chunker = "raised" => yielded = <<>>)
    /\ [](Len(yielded) <= Len(pdf_text))
    /\ [](\A j \in 1..Len(yielded) :
             /\ IsSubstringAt(j)
             /\ j > 1 => yielded[j - 1].at < yielded[j].at)

C16_Witness ==
    /\ chunker = "exhausted"
    /\ Len(yielded) = Len(pdf_text)
    /\ Len(yielded) >= MaxTextLen
    /\ overlap > 0

\* C17 as stated: whenever chunk_size > overlap, every position of the text
\* lies in a chunk and every chunk after the first starts at or before the
\* end of the chunk before it
C17_ChunksCoverAnyOverlap ==
    chunker = "exhausted" =>
       /\ \A p \in 1..Len(pdf_text) : PositionCovered(p)
       /\ \A j \in 2..Len(yielded) : yielded[j].at <= ChunkEnd(j - 1)

\* C17 amended: whenever chunk_size > overlap >= 0, every position of the
\* text lies in a chunk and every chunk after the first starts at or before
\* the end of the chunk before it
C17_ChunksCoverNonNegativeOverlap ==
    (chunker = "exhausted" /\ overlap >= 0) =>
       /\ \A p \in 1..Len(pdf_text) : PositionCovered(p)
       /\ \A j \in 2..Len(yielded) : yielded[j].at <= ChunkEnd(j - 1)

C17_Witness ==
    /\ chunker = "exhausted"
    /\ overlap = 1
    /\ chunk_size = MaxChunkSize
    /\ Len(yielded) >= 2
    /\ Len(yielded[Len(yielded)].chunk) < chunk_size
    /\ \A p \in 1..Len(pdf_text) : PositionCovered(p)

(***************************************************************************)
(* Claims on the run as a whole.                                           *)
(***************************************************************************)
VerificationsSent == {i \in TaskIndices : tasks[i].sent > 0}
IsAssembled(response) ==
    /\ response.document_title # VerificationUnavailable
    /\ response.claims = <<>>
    /\ Len(response.analysis_markdown) > 0
    /\ response.analysis_markdown[1] = "# Document Analysis"
    /\ Cardinality(Heads(response.analysis_markdown)) = K
IsDegraded(response) ==
    /\ response.document_title = VerificationUnavailable
    /\ response.analysis_markdown[4] = "Analysis unavailable."

\* C18: within one call the body runs once: the retry decorator never starts
\* a second attempt, the extraction request is sent once and never after the
\* tasks exist, each verification request is sent at most once, and a failed
\* verification request leaves all of this as it is
C18_BodyRunsOnce ==
    /\ attempt = 1
    /\ extractionSent <= 1
    /\ tasks # <<>> => (extractionSent = 1 /\ ExtractionInFlight = {} /\ Len(tasks) = K)
    /\ \A i \in TaskIndices :
          /\ tasks[i].sent <= 1
          /\ tasks[i].answered # "none" => tasks[i].sent = 1
    /\ extractionSent + Cardinality(VerificationsSent) <= 1 + K

\* a returned run in which a verification request failed, another was
\* answered, and every request was sent once
C18_Witness ==
    /\ pc = "returned"
    /\ extractionSent = 1
    /\ Len(tasks) >= 3
    /\ tasks[1].answered = "failure"
    /\ tasks[2].answered = "text"
    /\ \A i \in TaskIndices : tasks[i].sent = 1

\* C19: an extraction request answered with a text always gives a text that
\* is not blank and at least one claim, so the run goes on to the verification
\* stage: it never returns the no-claims result, and when it returns at least
\* one verification request has been sent
C19_ExtractionYieldsClaims ==
    /\ extractionAnswered = "text" =>
          /\ NotBlank(extraction_markdown)
          /\ K >= 1
          /\ Len(tasks) = K
    /\ (pc = "returned" /\ extractionAnswered = "text") =>
          /\ VerificationsSent # {}
          /\ result # NoClaimsResponse(document_title, extraction_markdown)
          /\ result # NoVerificationsResponse(document_title)
    /\ result.analysis_markdown # <<"No claims identified in the document.">>

\* a returned run whose extraction answer had no bullet line: the whole
\* answer was verified as the single claim
C19_Witness ==
    /\ pc = "returned"
    /\ extractionAnswered = "text"
    /\ extraction_markdown = PlainText
    /\ claim_statements = <<PlainText>>
    /\ tasks[1].sent = 1

\* C20: a run returns the degraded result only when no verification task
\* was created; once the tasks exist no task ends with an exception and the
\* run returns the assembled report of K blocks with no structured claim; a
\* result has structured claims only when it is the degraded result
C20_DegradedOnlyBeforeVerification ==
    /\ \A i \in TaskIndices : tasks[i].state # "failed"
    /\ (pc = "returned" /\ IsDegraded(result)) =>
          (tasks = <<>> /\ extractionAnswered = "failure")
    /\ ReturnedAfterVerifying => IsAssembled(result)
    /\ result.claims # <<>> => (pc = "returned" /\ IsDegraded(result) /\ tasks = <<>>)

\* a returned run in which every verification request failed
C20_Witness ==
    /\ ReturnedAfterVerifying
    /\ K >= 2
    /\ \A i \in TaskIndices : tasks[i].answered = "failure"
    /\ IsAssembled(result)

(***************************************************************************)
(* Runs against a deterministic service: the reply to a prompt is fixed    *)
(* before the run.  Within a run the document text and the title are the   *)
(* same in every verification prompt, so the prompts differ by the claim   *)
(* statement only, and the service is a reply to the extraction prompt     *)
(* with a reply for each claim statement that can be asked about.          *)
(***************************************************************************)
\* two bullets with the same statement: two tasks send the same prompt
RepeatedText == Join(<<ClaimsLine, BulletLine(1), BulletLine(1)>>, NL)

DeterministicExtractionReplies ==
    FailureReplies \cup
    {TextReply(t) : t \in {BulletText(k) : k \in 0..MaxOrdered}
                            \cup {TitledText, SentinelText, PlainText, RepeatedText}}

\* the claim statements a run asks about when the extraction is answered by r
StatementsAsked(r) ==
    IF RunVertexRequest(r).ok
    THEN {ParseClaimExtractionText(RunVertexRequest(r).text).claims[i] :
             i \in 1..Len(ParseClaimExtractionText(RunVertexRequest(r).text).claims)}
    ELSE {}

DeterministicGateways ==
    UNION { {[deterministic |-> TRUE, extraction |-> r, verification |-> f] :
                f \in [StatementsAsked(r) -> VerificationReplies]} :
            r \in DeterministicExtractionReplies }

DeterministicInit ==
    /\ chunks \in InputChunks
    /\ gateway \in DeterministicGateways
    /\ PipelineIdle
    /\ ParserIdle
    /\ RequestIdle
    /\ ChunkerIdle

\* the steps of a run, every request answered as the service has fixed
DeterministicNext ==
    \/ Call
    \/ ExtractionReply(gateway.extraction)
    \/ \E index \in 1..MaxClaims : AcquireAndSend(index)
    \/ \E index \in TaskIndices :
          VerificationReply(index, gateway.verification[claim_statements[index]])
    \/ Gather

DeterministicSpec == DeterministicInit /\ [][DeterministicNext]_vars

\* the response that the fragments and the service determine: the stages
\* applied one after the other, the claims verified in extraction order
ResponseOf(fragments, service) ==
    IF fragments = <<>> THEN EmptyDocumentResponse
    ELSE LET stage1 == ExtractClaimStatements(FormatDocumentChunks(fragments),
                                              RunVertexRequest(service.extraction))
         IN  IF stage1.raised THEN FallbackResponse(stage1.exc)
             ELSE IF stage1.claims = <<>>
             THEN NoClaimsResponse(stage1.document_title, stage1.response_text)
             ELSE AssembledResponse(
                      stage1.document_title, stage1.response_text,
                      [i \in 1..Len(stage1.claims) |->
                          VerifyClaimWithLogging(
                              i, stage1.claims[i],
                              RunVertexRequest(service.verification[stage1.claims[i]])
                          ).block])

\* C15: against a deterministic service, the response of a run (title,
\* claims list and markdown) is the one that the input and the service
\* determine, whatever the order in which the verification tasks were
\* scheduled and completed; hence two runs on the same input against the
\* same service return identical responses
C15_ResponseDeterminedByInput ==
    pc = "returned" =>
       \E expected \in {ResponseOf(chunks, gateway)} :
          /\ result.document_title = expected.document_title
          /\ result.claims = expected.claims
          /\ result.analysis_markdown = expected.analysis_markdown

\* a returned run whose tasks completed out of extraction order and whose
\* claims got different replies, one of them a failure
C15_Witness ==
    /\ ReturnedAfterVerifying
    /\ gateway.deterministic
    /\ Len(finished) = MaxOrdered
    /\ finished[1] > finished[2]
    /\ tasks[1].answered = "failure"
    /\ tasks[2].answered = "text"
    /\ result = ResponseOf(chunks, gateway)

====
